---- MODULE Spec2Model ----
(***************************************************************************)
(* A model of the memory-ops proxy core:                                   *)
(*   - the sliding-window rate limiter of src/app/rate_limit.py            *)
(*     (specification Spec), and                                           *)
(*   - the context reducer of src/app/services/qr_retriever.py             *)
(*     (specification SpecReduce).                                         *)
(* Times are whole seconds.  A window that trails a time T holds the       *)
(* timestamps ts with T - 60 < ts <= T.                                    *)
(***************************************************************************)
EXTENDS Integers, Sequences, FiniteSets, TLC

\* ------------------------------------------------------------------ bounds

\* The number of RateLimiter.check calls of one behaviour.
MaxCalls == 3

\* reduce: the longest query and context, in tokens, the longest context the
\* oracle scores, and the largest top_k.
MaxQueryLen == 2
MaxCtxLen == 10
MaxScoredLen == 4
MaxTopK == 5
MaxMemoryCalls == 4
MaxReduceCalls == 3
MaxRequests == 2
MaxKeysLen == 3
MaxHeaderLen == 3

\* ------------------------------------------------- inputs of the limiter

\* Callers' identities: "" is the shared bucket of disabled authentication.
Identities == {"", "key-a"}

\* Token counts a check is called with.
TokenCounts == {1, 2, 4}

\* Seconds by which time() has advanced since the previous check read it
\* (the clock never goes back; 59 and 60 are the two sides of the window).
Deltas == {0, 59, 60}

\* Ceilings the limiter is constructed with (<= 0: the ceiling is off).
RequestCeilings == {0, 1, 2}
TokenCeilings == {-1, 0, 3}

\* Settings the process may run under (config.py, overridable by environment).
SettingsSet ==
    [requests_per_minute : {2}, tokens_per_minute : {0, 3}, rate_limit_tpm : {0, 3}]

\* --------------------------------------------------------------- state

VARIABLES
    args,                 \* the arguments RateLimiter was constructed with
    requests_per_minute,  \* RateLimiter.requests_per_minute
    tokens_per_minute,    \* RateLimiter.tokens_per_minute
    store,                \* RateLimiter._store: identity -> Quota
    clock,                \* the value time() returned last
    log,                  \* history: one record per check call, in call order
    rin,                  \* reduce: the inputs of the call
    rout,                 \* reduce: what the call returned (or NoResult)
    messages,             \* memory: the rows of the table "messages"
    mlog,                 \* history: the add_message and clear_session calls
    lora_id,              \* settings.lora_id
    env,                  \* what loading and running the model would meet now
    model_cache,          \* the lru_cache of _load_model
    calls,                \* history: one record per reduce call, in call order
    pc,                   \* chat_completions: where each request's coroutine is
    req,                  \* chat_completions: the locals of each request
    trace,                \* history: what each request did, in order
    api_keys,             \* settings.api_keys, the text of API_KEYS
    x_api_key,            \* get_current_identity: the X-API-Key header
    auth                  \* get_current_identity: how the call ended

limiterVars == <<args, requests_per_minute, tokens_per_minute, store, clock, log>>
reduceVars == <<rin, rout>>
memoryVars == <<messages, mlog>>
loadVars == <<lora_id, env, model_cache, calls>>
mainVars == <<pc, req, trace>>
authVars == <<api_keys, x_api_key, auth>>
vars == <<limiterVars, reduceVars, memoryVars, loadVars, mainVars, authVars>>

\* ------------------------------------------------------------- helpers

Last(s) == s[Len(s)]

\* Python's `a or b` on integers: a when a is truthy (non-zero), else b.
Or(a, b) == IF a # 0 THEN a ELSE b

\* ---------------------------------------------------------- rate limiter

\* The sliding window, in seconds (window_start = now - 60).
Window == 60

\* Quota(deque(), deque())
EmptyQuota == [reqs |-> <<>>, tokens |-> <<>>]

\* RateLimiter.__init__: the ceilings the instance keeps.
RateLimiterInit(rpm, tpm, settings) ==
    [requests_per_minute |-> rpm,
     tokens_per_minute |-> Or(Or(tpm, settings.tokens_per_minute), settings.rate_limit_tpm)]

\* get_rate_limiter(): the arguments the factory constructs the limiter with.
get_rate_limiter(settings) ==
    [requests_per_minute |-> settings.requests_per_minute,
     tokens_per_minute |-> Or(settings.tokens_per_minute, settings.rate_limit_tpm)]

\* RateLimiter._get_quota: the store with the identity's quota created lazily.
get_quota(st, identity) ==
    IF identity \in DOMAIN st THEN st ELSE st @@ (identity :> EmptyQuota)

\* A faulty variant: an entry exactly 60 seconds old is kept.
Expired_strict(ts, window_start) == ts < window_start

\* The test of the two purge loops: an entry of timestamp ts is dropped.
Expired(ts, window_start) == ts <= window_start

\* A faulty variant: the request timestamps are never purged.
PurgeReqs_never(reqs, window_start) == reqs

\* while quota.reqs and quota.reqs[0] <= window_start: quota.reqs.popleft()
RECURSIVE PurgeReqs(_, _)
PurgeReqs(reqs, window_start) ==
    IF reqs # <<>> /\ Expired(reqs[1], window_start)
    THEN PurgeReqs(Tail(reqs), window_start)
    ELSE reqs

\* A faulty variant: the token events are never purged.
PurgeTokens_never(tokens, window_start) == tokens

\* while quota.tokens and quota.tokens[0][0] <= window_start: quota.tokens.popleft()
RECURSIVE PurgeTokens(_, _)
PurgeTokens(tokens, window_start) ==
    IF tokens # <<>> /\ Expired(tokens[1][1], window_start)
    THEN PurgeTokens(Tail(tokens), window_start)
    ELSE tokens

\* sum(t for _, t in quota.tokens)
RECURSIVE SumTokens(_)
SumTokens(tokens) ==
    IF tokens = <<>> THEN 0 ELSE tokens[1][2] + SumTokens(Tail(tokens))

\* A faulty variant: the request ceiling lets one request too many through.
RequestLimitHit_offByOne(rpm, reqs) == rpm > 0 /\ Len(reqs) > rpm

\* self.requests_per_minute > 0 and len(quota.reqs) >= self.requests_per_minute
RequestLimitHit(rpm, reqs) == rpm > 0 /\ Len(reqs) >= rpm

\* A faulty variant: a request that exactly reaches the token ceiling is rejected.
TokenLimitHit_atCeiling(tpm, total_tokens, tokens) ==
    tpm > 0 /\ (total_tokens + tokens) >= tpm

\* self.tokens_per_minute > 0 and (total_tokens + tokens) > self.tokens_per_minute
TokenLimitHit(tpm, total_tokens, tokens) ==
    tpm > 0 /\ (total_tokens + tokens) > tpm

\* What a check call ends with: None, or one of the two HTTPExceptions.
Admitted ==
    [raised |-> FALSE, status_code |-> 200, detail |-> "", retry_after |-> ""]
RequestRateExceeded ==
    [raised |-> TRUE, status_code |-> 429,
     detail |-> "Rate limit exceeded: too many requests per minute",
     retry_after |-> "60"]
TokenRateExceeded ==
    [raised |-> TRUE, status_code |-> 429,
     detail |-> "Rate limit exceeded: too many tokens per minute",
     retry_after |-> "60"]

\* A faulty variant: the token ceiling is evaluated before the request ceiling.
check_tokensFirst(st, rpm, tpm, identity, tokens, now) ==
    LET created == get_quota(st, identity)
        window_start == now - Window
        reqs == PurgeReqs(created[identity].reqs, window_start)
        events == PurgeTokens(created[identity].tokens, window_start)
        purged == [created EXCEPT ![identity] = [reqs |-> reqs, tokens |-> events]]
    IN  IF TokenLimitHit(tpm, SumTokens(events), tokens)
        THEN [store |-> purged, outcome |-> TokenRateExceeded]
        ELSE IF RequestLimitHit(rpm, reqs)
        THEN [store |-> purged, outcome |-> RequestRateExceeded]
        ELSE [store |-> [purged EXCEPT ![identity] =
                            [reqs |-> Append(reqs, now),
                             tokens |-> Append(events, <<now, tokens>>)]],
              outcome |-> Admitted]

\* A faulty variant: usage is recorded before the ceilings are evaluated.
check_recordFirst(st, rpm, tpm, identity, tokens, now) ==
    LET created == get_quota(st, identity)
        window_start == now - Window
        reqs == PurgeReqs(created[identity].reqs, window_start)
        events == PurgeTokens(created[identity].tokens, window_start)
        recorded == [created EXCEPT ![identity] =
                        [reqs |-> Append(reqs, now),
                         tokens |-> Append(events, <<now, tokens>>)]]
    IN  IF RequestLimitHit(rpm, reqs)
        THEN [store |-> recorded, outcome |-> RequestRateExceeded]
        ELSE IF TokenLimitHit(tpm, SumTokens(events), tokens)
        THEN [store |-> recorded, outcome |-> TokenRateExceeded]
        ELSE [store |-> recorded, outcome |-> Admitted]

\* A faulty variant: usage is recorded at the front of the two sequences.
check_recordAtFront(st, rpm, tpm, identity, tokens, now) ==
    LET created == get_quota(st, identity)
        window_start == now - Window
        reqs == PurgeReqs(created[identity].reqs, window_start)
        events == PurgeTokens(created[identity].tokens, window_start)
        purged == [created EXCEPT ![identity] = [reqs |-> reqs, tokens |-> events]]
    IN  IF RequestLimitHit(rpm, reqs)
        THEN [store |-> purged, outcome |-> RequestRateExceeded]
        ELSE IF TokenLimitHit(tpm, SumTokens(events), tokens)
        THEN [store |-> purged, outcome |-> TokenRateExceeded]
        ELSE [store |-> [purged EXCEPT ![identity] =
                            [reqs |-> <<now>> \o reqs,
                             tokens |-> <<<<now, tokens>>>> \o events]],
              outcome |-> Admitted]

\* A faulty variant: every identity is counted in one shared quota.
check_sharedQuota(st, rpm, tpm, identity, tokens, now) ==
    LET created == get_quota(st, "")
        window_start == now - Window
        reqs == PurgeReqs(created[""].reqs, window_start)
        events == PurgeTokens(created[""].tokens, window_start)
        purged == [created EXCEPT ![""] = [reqs |-> reqs, tokens |-> events]]
    IN  IF RequestLimitHit(rpm, reqs)
        THEN [store |-> purged, outcome |-> RequestRateExceeded]
        ELSE IF TokenLimitHit(tpm, SumTokens(events), tokens)
        THEN [store |-> purged, outcome |-> TokenRateExceeded]
        ELSE [store |-> [purged EXCEPT ![""] =
                            [reqs |-> Append(reqs, now),
                             tokens |-> Append(events, <<now, tokens>>)]],
              outcome |-> Admitted]

\* RateLimiter.check(identity, tokens) with time() = now: the store it leaves
\* and how it ends.
check(st, rpm, tpm, identity, tokens, now) ==
    LET created == get_quota(st, identity)
        window_start == now - Window
        reqs == PurgeReqs(created[identity].reqs, window_start)
        events == PurgeTokens(created[identity].tokens, window_start)
        purged == [created EXCEPT ![identity] = [reqs |-> reqs, tokens |-> events]]
    IN  IF RequestLimitHit(rpm, reqs)
        THEN [store |-> purged, outcome |-> RequestRateExceeded]
        ELSE IF TokenLimitHit(tpm, SumTokens(events), tokens)
        THEN [store |-> purged, outcome |-> TokenRateExceeded]
        ELSE [store |-> [purged EXCEPT ![identity] =
                            [reqs |-> Append(reqs, now),
                             tokens |-> Append(events, <<now, tokens>>)]],
              outcome |-> Admitted]

\* --------------------------------------------------------------- reducer

\* A text is the sequence of tokens the tokenizer splits it into; the tokens
\* of a text are distinct, so a token names its place in the text.
QueryText(n) == [i \in 1..n |-> <<"query", i>>]
ContextText(n) == [i \in 1..n |-> <<"context", i>>]

\* sep = "\n\n### CONTEXT ###\n\n", a text of several tokens.
sep == <<<<"sep", 1>>, <<"sep", 2>>>>

\* The special token a tokenizer may put in front of every encoding (the
\* BOS of the Llama/Mistral tokenizers; GPT-2 style tokenizers add none).
BosToken == <<"bos", 0>>

\* tokenizer(text).input_ids: the text's tokens behind `bos` special tokens.
tokenizer(text, bos) == [i \in 1..bos |-> BosToken] \o text

\* tokenizer.decode(ids, skip_special_tokens=True)
decode(ids) == SelectSeq(ids, LAMBDA t : t # BosToken)

\* len(ids.squeeze().tolist()) raises TypeError when the encoding holds one
\* token: squeeze() then leaves a 0-dim tensor and tolist() a bare int.
SqueezedIsScalar(ids) == Len(ids) = 1

\* top_k: Optional[int] as <<>> (None) or <<k>>; None takes settings.top_k.
None == <<>>
EffectiveTopK(top_k, settings_top_k) ==
    IF top_k = None THEN settings_top_k ELSE top_k[1]

Min(a, b) == IF a <= b THEN a ELSE b
Max(a, b) == IF a >= b THEN a ELSE b

\* Python's lst[start:], lst[:n] and lst[-n:] (n >= 1).
From(lst, start) == SubSeq(lst, start + 1, Len(lst))
FirstN(lst, n) == SubSeq(lst, 1, Min(n, Len(lst)))
LastN(lst, n) == SubSeq(lst, Len(lst) - Min(n, Len(lst)) + 1, Len(lst))

\* The increasing sequence of a set of integers: torch.sort(...).values
RECURSIVE Sorted(_)
Sorted(S) ==
    IF S = {} THEN <<>>
    ELSE LET m == CHOOSE x \in S : \A y \in S : x <= y
         IN  <<m>> \o Sorted(S \ {m})

\* A faulty variant: the first half is rounded up.
Half_roundedUp(top_k) == Max((top_k + 1) \div 2, 1)

\* half = max(top_k // 2, 1)
Half(top_k) == Max(top_k \div 2, 1)

\* input_ids of query + sep + context, and its positions 0 .. seq_len - 1.
InputIds(in) == tokenizer(in.query \o sep \o in.context, in.bos)
Positions(in) == [p \in 1..Len(InputIds(in)) |-> p - 1]

\* start_idx = len(query_tokens) + sep_len, each from an encoding of its own.
StartIdx(in) == Len(tokenizer(in.query, in.bos)) + Len(tokenizer(sep, in.bos))

\* What reduce returns: (condensed, tokens_before, tokens_after), with the
\* positions of input_ids it selected, in the order it emits them.
Returned(in, path, selected_pos) ==
    LET selected == [i \in 1..Len(selected_pos) |-> InputIds(in)[selected_pos[i] + 1]]
    IN  [done |-> TRUE, raised |-> FALSE, path |-> path,
         condensed |-> decode(selected),
         tokens_before |-> Len(InputIds(in)),
         tokens_after |-> Len(selected),
         selected_pos |-> selected_pos]

\* reduce ending in the TypeError of len() on a bare int.
Raised(path) ==
    [done |-> TRUE, raised |-> TRUE, path |-> path, condensed |-> <<>>,
     tokens_before |-> 0, tokens_after |-> 0, selected_pos |-> <<>>]

\* reduce without retrieval heads: the first and last `half` tokens of
\* context_ids = input_ids[start_idx:], or all of it when it is short.
reduce_fallback(in) ==
    LET top_k == EffectiveTopK(in.top_k, in.settings_top_k)
        half == Half(top_k)
        context_pos == From(Positions(in), StartIdx(in))
    IN  IF SqueezedIsScalar(tokenizer(in.query, in.bos))
        THEN Raised("fallback")
        ELSE IF Len(context_pos) <= top_k
        THEN Returned(in, "fallback", context_pos)
        ELSE Returned(in, "fallback", FirstN(context_pos, half) \o LastN(context_pos, half))

\* The score of a masked position: -float("inf"), below every score.
NegInf == -1

\* relevance after relevance[: query_len + sep_len] = -inf, by position.
Relevance(in) ==
    [p \in 0..(Len(InputIds(in)) - 1) |->
        IF p < StartIdx(in) THEN NegInf
        ELSE in.scores[p - (in.bos + Len(in.query) + Len(sep)) + 1]]

\* torch.topk(relevance, k): any k positions none of which scores below a
\* position left out (which of several equal scores it takes is not fixed).
TopK(relevance, k) ==
    {S \in SUBSET (DOMAIN relevance) :
        /\ Cardinality(S) = k
        /\ \A p \in S, q \in (DOMAIN relevance) \ S : relevance[p] >= relevance[q]}

\* reduce with retrieval heads, torch.topk having returned top_indices.
reduce_oracle(in, top_indices) ==
    IF SqueezedIsScalar(tokenizer(in.query, in.bos))
    THEN Raised("oracle")
    ELSE Returned(in, "oracle", Sorted(top_indices))

\* The inputs of a reduce call: a query, a context, top_k (or None, with the
\* configured settings.top_k), the tokenizer's special-token count, whether
\* the adapter declares retrieval heads and, if so, the oracle's score of
\* every context token.
FallbackInputs ==
    [query : {QueryText(n) : n \in 0..MaxQueryLen},
     context : {ContextText(n) : n \in 0..MaxCtxLen},
     top_k : {None} \cup {<<k>> : k \in 0..MaxTopK},
     settings_top_k : {4},
     bos : {0, 1},
     retrieval_heads : {FALSE},
     scores : {<<>>}]
ScoreValues == {1, 2, 5, 9}
OracleInputs ==
    UNION {[query : {QueryText(n) : n \in 0..MaxQueryLen},
            context : {ContextText(c)},
            top_k : {None} \cup {<<k>> : k \in 0..MaxTopK},
            settings_top_k : {4},
            bos : {0, 1},
            retrieval_heads : {TRUE},
            scores : [1..c -> ScoreValues]] : c \in 0..MaxScoredLen}

\* ---------------------------------------------------------------- memory

\* The sessions and the messages the memory is exercised with.
SessionIds == {"s", "sess"}
MessageSet ==
    {[role |-> "user", content |-> "hello", tokens |-> 1],
     [role |-> "assistant", content |-> "hi", tokens |-> 2],
     [role |-> "user", content |-> "hi", tokens |-> 1]}

\* The id an INTEGER PRIMARY KEY column gives a new row: one more than the
\* largest id in the table.
NextId(tbl) ==
    IF tbl = {} THEN 1
    ELSE (CHOOSE m \in {r.id : r \in tbl} : \A r \in tbl : m >= r.id) + 1

\* add_message: insert one row and commit.
add_message(tbl, session_id, role, content, tokens) ==
    tbl \cup {[id |-> NextId(tbl), session_id |-> session_id, role |-> role,
               content |-> content, tokens |-> tokens]}

\* .order_by(Message.id)
RECURSIVE OrderById(_)
OrderById(rows) ==
    IF rows = {} THEN <<>>
    ELSE LET first == CHOOSE r \in rows : \A q \in rows : r.id <= q.id
         IN  <<first>> \o OrderById(rows \ {first})

\* get_messages: the session's rows by id, as dicts without id and session.
get_messages(tbl, session_id) ==
    LET rows == OrderById({r \in tbl : r.session_id = session_id})
    IN  [i \in 1..Len(rows) |->
            [role |-> rows[i].role, content |-> rows[i].content,
             tokens |-> rows[i].tokens]]

\* "\n".join(parts)
RECURSIVE Join(_)
Join(parts) ==
    IF parts = <<>> THEN ""
    ELSE IF Len(parts) = 1 THEN parts[1]
    ELSE parts[1] \o "\n" \o Join(Tail(parts))

\* get_context: the contents of the session's messages joined by newlines.
get_context(tbl, session_id) ==
    LET msgs == get_messages(tbl, session_id)
    IN  Join([i \in 1..Len(msgs) |-> msgs[i].content])

\* A faulty variant: the delete is never committed.
clear_session_uncommitted(tbl, session_id) == tbl

\* A faulty variant: the delete has no where clause.
clear_session_everySession(tbl, session_id) == {}

\* clear_session: delete the session's rows and commit.
clear_session(tbl, session_id) == {r \in tbl : r.session_id # session_id}

\* ---------------------------------------------------------- model loading

\* What the process meets when it loads or runs the model: whether
\* PeftModel.from_pretrained succeeds, whether the adapter's config yields a
\* list of retrieval heads, whether the forward pass of the model succeeds.
Environments == [adapter : BOOLEAN, heads : BOOLEAN, inference : BOOLEAN]
AllUp == [adapter |-> TRUE, heads |-> TRUE, inference |-> TRUE]

\* settings.lora_id: none (the default) or the id of an adapter.
LoraIds == {"", "qr-head-lora"}

\* The lru_cache before the first call that returned.
NotLoaded == [loaded |-> FALSE, retrieval_heads |-> FALSE]

\* The body of _load_model: it raises when the adapter cannot be loaded,
\* else returns the retrieval heads it read (none without an adapter, none
\* when reading them from the config fails).
load_model_body(lora, e) ==
    IF lora = "" THEN [raised |-> FALSE, retrieval_heads |-> FALSE]
    ELSE IF ~e.adapter THEN [raised |-> TRUE, retrieval_heads |-> FALSE]
    ELSE [raised |-> FALSE, retrieval_heads |-> e.heads]

\* _load_model under @lru_cache(maxsize=1): the value of the first call
\* that returned is returned ever after; a call that raised caches nothing.
load_model(cache, lora, e) ==
    IF cache.loaded
    THEN [raised |-> FALSE, retrieval_heads |-> cache.retrieval_heads,
          cache |-> cache]
    ELSE LET r == load_model_body(lora, e)
         IN  [raised |-> r.raised, retrieval_heads |-> r.retrieval_heads,
              cache |-> IF r.raised THEN cache
                        ELSE [loaded |-> TRUE,
                              retrieval_heads |-> r.retrieval_heads]]

\* How a reduce call ends as far as the choice of path goes: it raises what
\* _load_model or the forward pass raises, takes the fallback without
\* retrieval heads, the oracle path with them.
reduce_path(loaded, e) ==
    IF loaded.raised THEN "raised"
    ELSE IF ~loaded.retrieval_heads THEN "fallback"
    ELSE IF e.inference THEN "oracle"
    ELSE "raised"

\* The oracle can be used now: an adapter is configured, it loads, its
\* config names retrieval heads and the model runs.
OracleAvailable(lora, e) == lora # "" /\ e.adapter /\ e.heads /\ e.inference

\* -------------------------------------------------------- request handler

\* The requests in flight, and what they carry.
Requests == 1..MaxRequests

\* The identities get_current_identity resolves the requests of one process
\* to: the keys of API_KEYS = "key-a,key-b".
MainIdentities == {"key-a", "key-b"}
SessionHeaders == {"", "s"}
Queries == {"hi", "hello"}

\* Python's `a or b` on strings: a unless it is empty (or None).
OrStr(a, b) == IF a # "" THEN a ELSE b

\* The bodies a request may carry: not JSON, JSON without a list under
\* "messages", an empty list, a list whose last message is not the user's,
\* or a list ending with the user's query.
Payloads ==
    [kind : {"invalid_json", "no_list", "empty_list", "last_not_user"},
     query : {""}, stream : {FALSE}]
    \cup [kind : {"ok"}, query : Queries, stream : BOOLEAN]

\* The number of tokens the tokenizer makes of a query.
QueryLen(query) == IF query = "hi" THEN 1 ELSE IF query = "hello" THEN 2 ELSE 0

\* The numbers of tokens the tokenizer may make of a context: none of the
\* empty string, some of any other.
ContextLens(context) == IF context = "" THEN {0} ELSE {3}

\* What call_llm may end with: a dict with choices, a dict without, an
\* async generator (stream requested), or an exception.
Results(stream) ==
    IF stream THEN {"generator", "error"} ELSE {"reply", "no_choices", "error"}

\* The settings the application may run under; main.py makes its limiter
\* with get_rate_limiter().
MainSettingsSet ==
    [requests_per_minute : {1, 2}, tokens_per_minute : {9}, rate_limit_tpm : {20000}]

\* The seconds time() may have advanced by when a handler calls check.
MainDeltas == {0, 60}

\* The locals of a request that has not been received (with them, on
\* record, the ids of the rows the request wrote to the memory).
NoRequest ==
    [identity |-> "", session_id |-> "", query |-> "", stream |-> FALSE,
     context |-> "", tokens_before |-> 0, tokens_after |-> 0,
     now |-> 0, status |-> 0, rows |-> {}]

\* A faulty variant: the coroutine would give up the event loop in check.
HoldsLoop_awaitInCheck(p) == p = "compress"

\* The positions at which a coroutine is running on the event loop: from
\* the return of `await request.json()` to `await call_llm(...)` there is no
\* await, compress and limiter.check being ordinary calls.
HoldsLoop(p) == p \in {"compress", "check_purge", "check_evaluate", "check_append"}

\* The event loop runs one coroutine at a time: request r can take a step
\* when no other request is running on the loop.
LoopFree(r) == \A q \in Requests \ {r} : ~HoldsLoop(pc[q])

\* A faulty variant: the handler charges the size after compression.
ChargedTokens_after(locals) == locals.tokens_after

\* limiter.check(identity, tokens_before): the tokens the handler charges.
ChargedTokens(locals) == locals.tokens_before

\* A faulty variant: the messages would be saved whatever call_llm did.
ReachesSave_always(result) == TRUE

\* An exception of `await call_llm(...)` leaves the handler at once; the
\* add_message calls are reached only when call_llm returned.
ReachesSave(result) == result # "error"

\* A faulty variant: the handler would go on after a rejected check.
GoesOn_always(outcome) == TRUE

\* limiter.check raises HTTPException out of the handler when it rejects;
\* the handler goes on to the upstream call only when it returned.
GoesOn(outcome) == ~outcome.raised

\* -------------------------------------------------------- authentication

\* A text is a sequence of characters here; the characters that matter to
\* split(",") and strip() are the comma and the blank.
Chars == {",", " ", "a", "b"}

\* The texts of at most n characters over a set of characters.
TextsUpTo(n, cs) == UNION {[1..k -> cs] : k \in 0..n}

\* Header(None): no X-API-Key header was sent.
NoHeader == [sent |-> FALSE, value |-> <<>>]

\* The X-API-Key headers a request may carry.
HeaderValues ==
    {NoHeader} \cup {[sent |-> TRUE, value |-> v] : v \in TextsUpTo(MaxHeaderLen, Chars)}

\* A faulty variant: the text is compared as it was sent.
strip_nothing(text) == text

\* str.strip(): the text without its leading and trailing blanks.
RECURSIVE strip(_)
strip(text) ==
    IF text = <<>> THEN text
    ELSE IF text[1] = " " THEN strip(Tail(text))
    ELSE IF text[Len(text)] = " " THEN strip(SubSeq(text, 1, Len(text) - 1))
    ELSE text

\* str.split(","): the fields between the commas, in order.
RECURSIVE split(_, _)
split(text, field) ==
    IF text = <<>> THEN <<field>>
    ELSE IF text[1] = "," THEN <<field>> \o split(Tail(text), <<>>)
    ELSE split(Tail(text), Append(field, text[1]))

\* Settings.parsed_api_keys: {k.strip() for k in api_keys.split(",") if k.strip()}
parsed_api_keys(keys) ==
    LET fields == split(keys, <<>>)
    IN  {strip(fields[i]) : i \in {j \in 1..Len(fields) : strip(fields[j]) # <<>>}}

\* How get_current_identity ends: with the identity, or with an HTTPException.
Identified(identity) ==
    [raised |-> FALSE, identity |-> identity, status_code |-> 200, detail |-> ""]
Unauthorized(detail) ==
    [raised |-> TRUE, identity |-> <<>>, status_code |-> 401, detail |-> detail]
NotCalled ==
    [raised |-> FALSE, identity |-> <<>>, status_code |-> 0, detail |-> ""]

\* get_current_identity(x_api_key) under the configured keys.
get_current_identity(keys, header) ==
    LET allowed_keys == parsed_api_keys(keys)
    IN  IF allowed_keys = {} THEN Identified(<<>>)
        ELSE IF ~header.sent \/ header.value = <<>>
        THEN Unauthorized("Missing X-API-Key header")
        ELSE IF strip(header.value) \notin allowed_keys
        THEN Unauthorized("Invalid API key")
        ELSE Identified(strip(header.value))

\* -------------------------------------------------------- specifications

\* No reduce call is in progress under the limiter's specification.
NoResult ==
    [done |-> FALSE, raised |-> FALSE, path |-> "", condensed |-> <<>>,
     tokens_before |-> 0, tokens_after |-> 0, selected_pos |-> <<>>]
NoInput ==
    [query |-> <<>>, context |-> <<>>, top_k |-> None, settings_top_k |-> 4,
     bos |-> 0, retrieval_heads |-> FALSE, scores |-> <<>>]

\* The limiter as constructed: directly, RateLimiter(rpm, tpm), or by the
\* factory get_rate_limiter(), under some settings; an empty store.
InitLimiter ==
    /\ \E settings \in SettingsSet :
         \E a \in [requests_per_minute : RequestCeilings,
                   tokens_per_minute : TokenCeilings] \cup {get_rate_limiter(settings)} :
           LET made == RateLimiterInit(a.requests_per_minute, a.tokens_per_minute, settings)
           IN  /\ args = a
               /\ requests_per_minute = made.requests_per_minute
               /\ tokens_per_minute = made.tokens_per_minute
    /\ store = <<>>
    /\ clock = 0
    /\ log = <<>>

\* No reduce call under way.
InitNoReduce ==
    /\ rin = NoInput
    /\ rout = NoResult

\* A limiter nothing is asked of.
InitIdleLimiter ==
    /\ args = [requests_per_minute |-> 0, tokens_per_minute |-> 0]
    /\ requests_per_minute = 0
    /\ tokens_per_minute = 0
    /\ store = <<>>
    /\ clock = 0
    /\ log = <<>>

\* Base.metadata.create_all on a fresh database: an empty table.
InitMemory ==
    /\ messages = {}
    /\ mlog = <<>>

\* No model loaded, no call to reduce made.
InitNoLoad ==
    /\ lora_id = ""
    /\ env = AllUp
    /\ model_cache = NotLoaded
    /\ calls = <<>>

\* get_current_identity not called.
InitNoAuth ==
    /\ api_keys = <<>>
    /\ x_api_key = NoHeader
    /\ auth = NotCalled

\* No request received.
InitNoRequests ==
    /\ pc = [r \in Requests |-> "idle"]
    /\ req = [r \in Requests |-> NoRequest]
    /\ trace = [r \in Requests |-> <<>>]

Init ==
    /\ InitLimiter
    /\ InitNoReduce
    /\ InitMemory
    /\ InitNoLoad
    /\ InitNoRequests
    /\ InitNoAuth

\* One call of RateLimiter.check, time() having advanced by d since the last.
Check(identity, tokens, d) ==
    /\ Len(log) < MaxCalls
    /\ LET now == clock + d
           r == check(store, requests_per_minute, tokens_per_minute, identity, tokens, now)
       IN  /\ clock' = now
           /\ store' = r.store
           /\ log' = Append(log, [identity |-> identity, tokens |-> tokens,
                                  now |-> now, outcome |-> r.outcome])
    /\ UNCHANGED <<args, requests_per_minute, tokens_per_minute, reduceVars, memoryVars, loadVars, mainVars, authVars>>

Next == \E identity \in Identities, tokens \in TokenCounts, d \in Deltas :
            Check(identity, tokens, d)

Spec == Init /\ [][Next]_vars

\* A reduce call: some inputs, the limiter idle.
InitReduce ==
    /\ rin \in FallbackInputs \cup OracleInputs
    /\ rout = NoResult
    /\ InitIdleLimiter
    /\ InitMemory
    /\ InitNoLoad
    /\ InitNoRequests
    /\ InitNoAuth

\* reduce taking the fallback branch (not retrieval_heads).
ReduceFallback ==
    /\ ~rout.done
    /\ ~rin.retrieval_heads
    /\ rout' = reduce_fallback(rin)
    /\ UNCHANGED <<rin, limiterVars, memoryVars, loadVars, mainVars, authVars>>

\* reduce scoring with the retrieval heads and selecting with torch.topk.
ReduceOracle ==
    /\ ~rout.done
    /\ rin.retrieval_heads
    /\ LET top_k == EffectiveTopK(rin.top_k, rin.settings_top_k)
           relevance == Relevance(rin)
       IN  \E top_indices \in TopK(relevance, Min(top_k, Len(InputIds(rin)))) :
               rout' = reduce_oracle(rin, top_indices)
    /\ UNCHANGED <<rin, limiterVars, memoryVars, loadVars, mainVars, authVars>>

NextReduce == ReduceFallback \/ ReduceOracle

SpecReduce == InitReduce /\ [][NextReduce]_vars

\* The memory under add_message and clear_session calls in any order.
InitSpecMemory ==
    /\ InitMemory
    /\ InitIdleLimiter
    /\ InitNoReduce
    /\ InitNoLoad
    /\ InitNoRequests
    /\ InitNoAuth

AddMessage(session_id, m) ==
    /\ Len(mlog) < MaxMemoryCalls
    /\ messages' = add_message(messages, session_id, m.role, m.content, m.tokens)
    /\ mlog' = Append(mlog, [op |-> "add_message", session_id |-> session_id,
                             message |-> m])
    /\ UNCHANGED <<limiterVars, reduceVars, loadVars, mainVars, authVars>>

ClearSession(session_id) ==
    /\ Len(mlog) < MaxMemoryCalls
    /\ messages' = clear_session(messages, session_id)
    /\ mlog' = Append(mlog, [op |-> "clear_session", session_id |-> session_id,
                             message |-> <<>>])
    /\ UNCHANGED <<limiterVars, reduceVars, loadVars, mainVars, authVars>>

NextMemory ==
    \/ \E session_id \in SessionIds, m \in MessageSet : AddMessage(session_id, m)
    \/ \E session_id \in SessionIds : ClearSession(session_id)

SpecMemory == InitSpecMemory /\ [][NextMemory]_vars

\* reduce called again and again in one process while the environment
\* changes between the calls.
InitLoad ==
    /\ lora_id \in LoraIds
    /\ env \in Environments
    /\ model_cache = NotLoaded
    /\ calls = <<>>
    /\ InitIdleLimiter
    /\ InitNoReduce
    /\ InitMemory
    /\ InitNoRequests
    /\ InitNoAuth

\* One reduce call up to the choice of its path.
ReduceCall ==
    /\ Len(calls) < MaxReduceCalls
    /\ LET loaded == load_model(model_cache, lora_id, env)
       IN  /\ model_cache' = loaded.cache
           /\ calls' = Append(calls, [available |-> OracleAvailable(lora_id, env),
                                      outcome |-> reduce_path(loaded, env)])
    /\ UNCHANGED <<lora_id, env, limiterVars, reduceVars, memoryVars, mainVars, authVars>>

\* The environment changes: an adapter becomes loadable or stops being so,
\* the device starts or stops serving the forward pass.
EnvChange(e) ==
    /\ e # env
    /\ env' = e
    /\ UNCHANGED <<lora_id, model_cache, calls, limiterVars, reduceVars, memoryVars, mainVars, authVars>>

NextLoad == ReduceCall \/ \E e \in Environments : EnvChange(e)

SpecLoad == InitLoad /\ [][NextLoad]_vars

\* get_current_identity called on a request, under some API_KEYS.
InitAuth ==
    /\ api_keys \in TextsUpTo(MaxKeysLen, Chars)
    /\ x_api_key \in HeaderValues
    /\ auth = NotCalled
    /\ InitIdleLimiter
    /\ InitNoReduce
    /\ InitMemory
    /\ InitNoLoad
    /\ InitNoRequests

GetCurrentIdentity ==
    /\ auth = NotCalled
    /\ auth' = get_current_identity(api_keys, x_api_key)
    /\ UNCHANGED <<api_keys, x_api_key, limiterVars, reduceVars, memoryVars,
                   loadVars, mainVars>>

NextAuth == GetCurrentIdentity

SpecAuth == InitAuth /\ [][NextAuth]_vars

\* The application serving requests: the limiter made by get_rate_limiter()
\* at import, an empty memory, the tokenizer of the configured model (one
\* that prepends a BOS token or one that does not, rin.bos), no request
\* received.
InitMain ==
    /\ \E settings \in MainSettingsSet :
         LET a == get_rate_limiter(settings)
             made == RateLimiterInit(a.requests_per_minute, a.tokens_per_minute, settings)
         IN  /\ args = a
             /\ requests_per_minute = made.requests_per_minute
             /\ tokens_per_minute = made.tokens_per_minute
    /\ store = <<>>
    /\ clock = 0
    /\ log = <<>>
    /\ InitMemory
    /\ \E bos \in {0, 1} : rin = [NoInput EXCEPT !.bos = bos]
    /\ rout = NoResult
    /\ InitNoLoad
    /\ InitNoRequests
    /\ InitNoAuth

\* The history tr with one more event of request r.
EventAfter(tr, r, ev) == [tr EXCEPT ![r] = Append(tr[r], ev)]
Event(r, ev) == EventAfter(trace, r, ev)

\* The handler has returned or raised: its locals are gone, the identity,
\* the time of its check and the status of the response remain on record.
Ended(locals, status) ==
    [NoRequest EXCEPT !.identity = locals.identity, !.now = locals.now,
                      !.status = status, !.rows = locals.rows]

\* A request is received: its identity resolved, the handler started and
\* suspended at `await request.json()`.  Requests are numbered in the order
\* in which they are received.
Arrive(r, identity, x_session_id) ==
    /\ pc[r] = "idle"
    /\ \A q \in Requests : q < r => pc[q] # "idle"
    /\ LoopFree(r)
    /\ pc' = [pc EXCEPT ![r] = "await_json"]
    /\ req' = [req EXCEPT ![r] = [NoRequest EXCEPT !.identity = identity,
                                                   !.session_id = x_session_id]]
    /\ trace' = Event(r, "arrive")
    /\ UNCHANGED <<limiterVars, reduceVars, memoryVars, loadVars, authVars>>

\* The body has been read: the handler validates it, reads the session's
\* context from the memory and enters compress; an invalid body ends the
\* request with 400 or 422.
BeginBody(r, payload) ==
    /\ pc[r] = "await_json"
    /\ LoopFree(r)
    /\ IF payload.kind = "ok"
       THEN LET session_id == OrStr(OrStr(req[r].session_id, req[r].identity), "anonymous")
            IN  /\ pc' = [pc EXCEPT ![r] = "compress"]
                /\ req' = [req EXCEPT ![r].session_id = session_id,
                                      ![r].query = payload.query,
                                      ![r].stream = payload.stream,
                                      ![r].context = get_context(messages, session_id)]
       ELSE /\ pc' = [pc EXCEPT ![r] = "done"]
            /\ req' = [req EXCEPT ![r] =
                          Ended(req[r], IF payload.kind = "invalid_json"
                                        THEN 400 ELSE 422)]
    /\ UNCHANGED <<trace, limiterVars, reduceVars, memoryVars, loadVars, authVars>>

\* compress returns (or raises, which ends the request with 500).
EndCompress(r, context_len) ==
    /\ pc[r] = "compress"
    /\ LoopFree(r)
    /\ LET in == [query |-> QueryText(QueryLen(req[r].query)),
                  context |-> ContextText(context_len),
                  top_k |-> None, settings_top_k |-> 2, bos |-> rin.bos,
                  retrieval_heads |-> FALSE, scores |-> <<>>]
           result == reduce_fallback(in)
       IN  IF result.raised
           THEN /\ pc' = [pc EXCEPT ![r] = "done"]
                /\ req' = [req EXCEPT ![r] = Ended(req[r], 500)]
           ELSE /\ pc' = [pc EXCEPT ![r] = "check_purge"]
                /\ req' = [req EXCEPT ![r].tokens_before = result.tokens_before,
                                      ![r].tokens_after = result.tokens_after]
    /\ trace' = Event(r, "reduce")
    /\ UNCHANGED <<limiterVars, reduceVars, memoryVars, loadVars, authVars>>

\* limiter.check, first part: now = time(), the quota fetched, the expired
\* entries popped.
CheckPurge(r, d) ==
    /\ pc[r] = "check_purge"
    /\ LoopFree(r)
    /\ LET now == clock + d
           created == get_quota(store, req[r].identity)
           quota == created[req[r].identity]
           window_start == now - Window
       IN  /\ clock' = now
           /\ store' = [created EXCEPT ![req[r].identity] =
                           [reqs |-> PurgeReqs(quota.reqs, window_start),
                            tokens |-> PurgeTokens(quota.tokens, window_start)]]
           /\ req' = [req EXCEPT ![r].now = now]
    /\ pc' = [pc EXCEPT ![r] = "check_evaluate"]
    /\ trace' = Event(r, "check")
    /\ UNCHANGED <<args, requests_per_minute, tokens_per_minute, log,
                   reduceVars, memoryVars, loadVars, authVars>>

\* The handler goes on past the check: it builds the upstream messages and
\* calls call_llm, suspending at the await.
CallUpstream(r, outcome) ==
    /\ pc' = [pc EXCEPT ![r] = "await_llm"]
    /\ trace' = EventAfter(Event(r, outcome), r, "upstream")

\* limiter.check, second part: the two ceilings are evaluated; a rejection
\* raises 429 out of the handler.
CheckEvaluate(r) ==
    /\ pc[r] = "check_evaluate"
    /\ LoopFree(r)
    /\ LET quota == store[req[r].identity]
           tokens == ChargedTokens(req[r])
           outcome == IF RequestLimitHit(requests_per_minute, quota.reqs)
                      THEN RequestRateExceeded
                      ELSE IF TokenLimitHit(tokens_per_minute, SumTokens(quota.tokens), tokens)
                      THEN TokenRateExceeded
                      ELSE Admitted
       IN  IF outcome.raised
           THEN /\ log' = Append(log, [identity |-> req[r].identity, tokens |-> tokens,
                                       now |-> req[r].now, outcome |-> outcome])
                /\ IF GoesOn(outcome)
                   THEN /\ CallUpstream(r, "rejected")
                        /\ UNCHANGED req
                   ELSE /\ pc' = [pc EXCEPT ![r] = "done"]
                        /\ req' = [req EXCEPT ![r] = Ended(req[r], 429)]
                        /\ trace' = Event(r, "rejected")
           ELSE /\ pc' = [pc EXCEPT ![r] = "check_append"]
                /\ UNCHANGED <<log, req, trace>>
    /\ UNCHANGED <<args, requests_per_minute, tokens_per_minute, store, clock,
                   reduceVars, memoryVars, loadVars, authVars>>

\* limiter.check, last part: the request and its tokens are recorded, check
\* returns and the handler goes on to the upstream call.
CheckAppend(r) ==
    /\ pc[r] = "check_append"
    /\ LoopFree(r)
    /\ LET quota == store[req[r].identity]
           tokens == ChargedTokens(req[r])
       IN  /\ store' = [store EXCEPT ![req[r].identity] =
                           [reqs |-> Append(quota.reqs, req[r].now),
                            tokens |-> Append(quota.tokens, <<req[r].now, tokens>>)]]
           /\ log' = Append(log, [identity |-> req[r].identity, tokens |-> tokens,
                                   now |-> req[r].now, outcome |-> Admitted])
    /\ CallUpstream(r, "admitted")
    /\ UNCHANGED <<args, requests_per_minute, tokens_per_minute, clock, req,
                   reduceVars, memoryVars, loadVars, authVars>>

\* call_llm has ended: an exception ends the request with 500; otherwise
\* the user's message is saved, the assistant's reply too when the result
\* is a dict with choices, and the response is sent.
UpstreamReturns(r, result) ==
    /\ pc[r] = "await_llm"
    /\ LoopFree(r)
    /\ result \in Results(req[r].stream)
    /\ pc' = [pc EXCEPT ![r] = "done"]
    /\ LET status == IF result = "error" THEN 500 ELSE 200
           user == add_message(messages, req[r].session_id, "user",
                               req[r].query, req[r].tokens_after)
           saved == IF result = "reply"
                    THEN add_message(user, req[r].session_id, "assistant", "hi", 1)
                    ELSE user
           written == {row.id : row \in saved \ messages}
       IN  IF ReachesSave(result)
           THEN /\ messages' = saved
                /\ trace' = Event(r, "add_message")
                /\ req' = [req EXCEPT ![r] =
                              Ended([req[r] EXCEPT !.rows = written], status)]
           ELSE /\ req' = [req EXCEPT ![r] = Ended(req[r], status)]
                /\ UNCHANGED <<messages, trace>>
    /\ UNCHANGED <<mlog, limiterVars, reduceVars, loadVars, authVars>>

NextMain ==
    \E r \in Requests :
        \/ \E identity \in MainIdentities, x_session_id \in SessionHeaders :
               Arrive(r, identity, x_session_id)
        \/ \E payload \in Payloads : BeginBody(r, payload)
        \/ \E context_len \in ContextLens(req[r].context) :
               EndCompress(r, context_len)
        \/ \E d \in MainDeltas : CheckPurge(r, d)
        \/ CheckEvaluate(r)
        \/ CheckAppend(r)
        \/ \E result \in {"reply", "no_choices", "generator", "error"} :
               UpstreamReturns(r, result)

SpecMain == InitMain /\ [][NextMain]_vars

\* ------------------------------------------- the limiter's call history

\* The checks of the history that were admitted / rejected.
IsAdmitted(i) == ~log[i].outcome.raised
IsRejected(i) == log[i].outcome.raised

\* Timestamp ts lies in the 60-second window that trails time T.
InWindow(ts, T) == T - Window < ts /\ ts <= T

\* The admitted checks of an identity among the first n calls whose
\* timestamps lie in the window trailing T.
AdmittedIn(identity, T, n) ==
    {i \in 1..n : /\ IsAdmitted(i)
                  /\ log[i].identity = identity
                  /\ InWindow(log[i].now, T)}

\* The times at which the checks of the history were made.
CheckTimes == {log[i].now : i \in 1..Len(log)}

\* The sum of the token counts of a set of calls of the history.
RECURSIVE TokensOf(_)
TokensOf(S) ==
    IF S = {} THEN 0
    ELSE LET i == CHOOSE x \in S : TRUE IN log[i].tokens + TokensOf(S \ {i})

\* What call i met: the admitted calls before it in the window trailing its
\* own timestamp, counted and summed from the history alone.
CountBefore(i) == Cardinality(AdmittedIn(log[i].identity, log[i].now, i - 1))
SumBefore(i) == TokensOf(AdmittedIn(log[i].identity, log[i].now, i - 1))
RequestsFull(i) == requests_per_minute > 0 /\ CountBefore(i) >= requests_per_minute
TokensOver(i) ==
    tokens_per_minute > 0 /\ SumBefore(i) + log[i].tokens > tokens_per_minute

\* ------------------------------------------------------------------ C1

\* C1: with a positive request ceiling, for every identity and every check
\* time T of the history, the admitted requests whose timestamps lie in the
\* 60-second window trailing T number at most requests_per_minute.  (A
\* window trailing any other time holds a subset of the window trailing the
\* latest check time in it.)
C1_RequestCeiling ==
    requests_per_minute > 0 =>
        \A identity \in Identities, T \in CheckTimes :
            Cardinality(AdmittedIn(identity, T, Len(log))) <= requests_per_minute

\* A full window: the ceiling was reached, a check was turned away for it,
\* and a later check of the identity was admitted once an entry had aged out.
C1_Witness ==
    /\ requests_per_minute > 0
    /\ \E i, j \in 1..Len(log) :
         /\ i < j
         /\ log[i].outcome = RequestRateExceeded
         /\ log[j].identity = log[i].identity
         /\ IsAdmitted(j)
         /\ Cardinality(AdmittedIn(log[j].identity, log[j].now, j)) = requests_per_minute

\* ------------------------------------------------------------------ C2

Live(ts, now) == ts > now - Window
LiveReqs(reqs, now) == SelectSeq(reqs, LAMBDA ts : Live(ts, now))
LiveTokens(tokens, now) == SelectSeq(tokens, LAMBDA e : Live(e[1], now))

\* A step is a check call that was rejected.
RejectedStep == Len(log') = Len(log) + 1 /\ Last(log').outcome.raised

\* C3 as stated: a rejected check leaves the whole quota store, the set of
\* identities present included, identical to the store before the call.
C3_RejectionLeavesStoreIdentical ==
    [][RejectedStep => store' = store]_vars

\* C3 as amended: a rejected check records no usage.  It appends nothing;
\* the identity's quota exists afterwards (created empty if it was absent)
\* and holds exactly its former entries that are still in the window
\* (timestamp > now - 60), in order; every other identity is untouched.
C3_RejectionRecordsNothing ==
    [][RejectedStep =>
         LET e == Last(log')
             old == IF e.identity \in DOMAIN store THEN store[e.identity] ELSE EmptyQuota
         IN  /\ DOMAIN store' = DOMAIN store \cup {e.identity}
             /\ \A other \in DOMAIN store \ {e.identity} : store'[other] = store[other]
             /\ store'[e.identity].reqs = LiveReqs(old.reqs, e.now)
             /\ store'[e.identity].tokens = LiveTokens(old.tokens, e.now)]_vars

\* The last call was rejected and found expired entries to purge: the
\* identity had been admitted before and its quota is now empty.
C3_Witness ==
    /\ Len(log) >= 2
    /\ IsRejected(Len(log))
    /\ \E i \in 1..(Len(log) - 1) :
         IsAdmitted(i) /\ log[i].identity = Last(log).identity
    /\ store[Last(log).identity] = EmptyQuota

\* ------------------------------------------------------------------ C4

\* C4: a limiter constructed with requests_per_minute <= 0 never rejects for
\* request rate, and one constructed with tokens_per_minute <= 0 (zero
\* included) never rejects for token rate.
C4_NonPositiveCeilingDisables ==
    /\ args.requests_per_minute <= 0 =>
          \A i \in 1..Len(log) : log[i].outcome # RequestRateExceeded
    /\ args.tokens_per_minute <= 0 =>
          \A i \in 1..Len(log) : log[i].outcome # TokenRateExceeded

\* ------------------------------------------------------------------ C5

\* C5: every rejection is a 429 with a retry-after of 60 seconds whose detail
\* names the resource that was exceeded, and the request ceiling is looked at
\* first: a call over both ceilings is rejected for request rate.
C5_RejectionShape ==
    \A i \in 1..Len(log) :
        /\ IsRejected(i) =>
              /\ log[i].outcome.status_code = 429
              /\ log[i].outcome.retry_after = "60"
              /\ \/ /\ log[i].outcome.detail = RequestRateExceeded.detail
                    /\ RequestsFull(i)
                 \/ /\ log[i].outcome.detail = TokenRateExceeded.detail
                    /\ TokensOver(i)
                    /\ ~RequestsFull(i)
        /\ (RequestsFull(i) /\ TokensOver(i)) =>
              log[i].outcome = RequestRateExceeded

\* A call that is over both ceilings at once.
C5_Witness ==
    \E i \in 1..Len(log) : RequestsFull(i) /\ TokensOver(i) /\ IsRejected(i)

\* ------------------------------------------------------------------ C6

\* Call j repeats the rejected call i (same identity, same token count) at
\* least 60 seconds later, nothing of the identity admitted in between.
RetryAfterWait(i, j) ==
    /\ i < j
    /\ IsRejected(i)
    /\ log[j].identity = log[i].identity
    /\ log[j].tokens = log[i].tokens
    /\ log[j].now >= log[i].now + Window
    /\ \A k \in (i + 1)..(j - 1) :
         ~(IsAdmitted(k) /\ log[k].identity = log[i].identity)

\* C6 as stated: a rejected check, repeated 60 seconds or more later with
\* nothing admitted for the identity in between, is admitted.
C6_RetryAdmitted ==
    \A i, j \in 1..Len(log) : RetryAfterWait(i, j) => IsAdmitted(j)

\* C6 as amended: the same, for a call whose own token count does not exceed
\* a positive tokens_per_minute (a call larger than the whole ceiling is
\* rejected however long the caller waits).
C6_RetryAdmittedWithinCeiling ==
    \A i, j \in 1..Len(log) :
        (/\ RetryAfterWait(i, j)
         /\ (tokens_per_minute > 0 => log[i].tokens <= tokens_per_minute))
            => IsAdmitted(j)

\* A rejected call that fits the ceiling, retried after the wait and admitted.
C6_Witness ==
    \E i, j \in 1..Len(log) :
        /\ RetryAfterWait(i, j)
        /\ (tokens_per_minute > 0 => log[i].tokens <= tokens_per_minute)
        /\ IsAdmitted(j)

\* ------------------------------------------------- the reducer's results

\* reduce has returned a result (it did not raise).
Reduced == rout.done /\ ~rout.raised

\* The call's top_k, and the length and first position of the context part
\* of input_ids (the tokens of the context text itself).
TopKOfCall == EffectiveTopK(rin.top_k, rin.settings_top_k)
CtxLen == Len(rin.context)
CtxStart == rin.bos + Len(rin.query) + Len(sep)

\* The positions lo, lo + 1, ..., hi - 1 as a sequence.
Range(lo, hi) == [i \in 1..(hi - lo) |-> lo + i - 1]

\* ------------------------------------------------------------------ C7

\* C7: on both paths reduce returns at most top_k tokens:
\* tokens_after <= top_k, for every top_k (odd, 1 and 0 included).
C7_AtMostTopK == Reduced => rout.tokens_after <= TopKOfCall

\* ------------------------------------------------------------------ C8

C9_ShortContextUnchanged ==
    (Reduced /\ CtxLen <= TopKOfCall) =>
        /\ rout.selected_pos = Range(CtxStart, CtxStart + CtxLen)
        /\ rout.condensed = rin.context
        /\ rout.tokens_after = CtxLen

\* ------------------------------------------------------------------ C10

\* C10: on both paths the selected positions are emitted in strictly
\* increasing order (original order, none twice), for every context length
\* and every top_k.
C10_StrictlyIncreasing ==
    Reduced =>
        \A i, j \in 1..Len(rout.selected_pos) :
            i < j => rout.selected_pos[i] < rout.selected_pos[j]

\* ------------------------------------------------------------------ C11

\* C11: on the oracle path no position of a query token or of a separator
\* token is among the selected positions, for every top_k and every context
\* length (top_k larger than the number of context tokens included).
C11_NoQueryOrSepSelected ==
    (Reduced /\ rout.path = "oracle") =>
        \A i \in 1..Len(rout.selected_pos) : rout.selected_pos[i] >= CtxStart

\* ------------------------------------------------------------------ C12

\* The score the selection goes by: minus infinity on the first
\* len(tokenizer(query)) + len(tokenizer(sep)) positions, the oracle's score
\* of the context token elsewhere.
ScoreAt(p) ==
    IF p < (rin.bos + Len(rin.query)) + (rin.bos + Len(sep))
    THEN NegInf
    ELSE rin.scores[p - CtxStart + 1]

\* Position p ranks before position q: a higher score, or the same score
\* and a lower position.
RanksBefore(p, q) ==
    ScoreAt(p) > ScoreAt(q) \/ (ScoreAt(p) = ScoreAt(q) /\ p < q)

\* The number of positions selected: min(top_k, total length).
SelectedCount == Min(TopKOfCall, rout.tokens_before)

\* The set of the selected positions.
SelectedSet == {rout.selected_pos[i] : i \in 1..Len(rout.selected_pos)}

\* The selected positions come in strictly increasing order.
InOriginalOrder ==
    \A i, j \in 1..Len(rout.selected_pos) :
        i < j => rout.selected_pos[i] < rout.selected_pos[j]

\* C12: on the oracle path reduce selects the min(top_k,
\* total length) highest-scoring positions, a tie at the boundary going to
\* the lower position, and emits them in original order.
C12_TopScoresLowerPositionFirst ==
    (Reduced /\ rout.path = "oracle") =>
        /\ Len(rout.selected_pos) = SelectedCount
        /\ InOriginalOrder
        /\ \A p \in SelectedSet, q \in (0..(rout.tokens_before - 1)) \ SelectedSet :
               RanksBefore(p, q)

\* ------------------------------------------------------------------ C13

\* C13: for an empty context reduce does not raise and returns the context
\* unchanged on both paths: the condensed text is empty and no token is
\* selected (tokens_after = 0).
C13_EmptyContextUnchanged ==
    (rout.done /\ CtxLen = 0) =>
        /\ ~rout.raised
        /\ rout.condensed = <<>>
        /\ rout.tokens_after = 0

\* ------------------------------------------------------------------ C17

\* A step that is a check call leaves the quota of every identity other
\* than the one checked as it was.
OtherQuotasKept ==
    Len(log') = Len(log) + 1 =>
        \A B \in DOMAIN store :
            B # Last(log').identity => (B \in DOMAIN store' /\ store'[B] = store[B])

\* C17: quota is partitioned by identity.  A check for identity A, admitted
\* or rejected, leaves the requests and token_events of every other identity
\* unchanged; a check is admitted exactly when the admitted calls of its own
\* identity in the window trailing it are below the request ceiling and
\* their tokens plus its own within the token ceiling; and whatever the
\* quotas of the identities, a check for any identity can be made and ends.
C17_PartitionedByIdentity ==
    /\ [][OtherQuotasKept]_vars
    /\ [](\A i \in 1..Len(log) :
              IsAdmitted(i) <=> (~RequestsFull(i) /\ ~TokensOver(i)))
    /\ [](Len(log) < MaxCalls =>
              \A identity \in Identities : ENABLED Check(identity, 1, 0))

\* Two identities at once: one has used up its request ceiling and is turned
\* away, the other is admitted at the same time, and the first identity's
\* quota still holds exactly its own admitted call.
C17_Witness ==
    /\ requests_per_minute = 1
    /\ \E i, j, k \in 1..Len(log) :
         /\ i < j /\ j < k
         /\ log[i].identity = log[j].identity
         /\ log[k].identity # log[i].identity
         /\ log[i].now = log[k].now
         /\ IsAdmitted(i)
         /\ log[j].outcome = RequestRateExceeded
         /\ IsAdmitted(k)
         /\ store[log[i].identity].reqs = <<log[i].now>>

\* ------------------------------------------------------------------ C20

\* The calls of the memory's history that name the session.
CallsOf(session_id) ==
    {i \in 1..Len(mlog) : mlog[i].session_id = session_id}

\* The place of the session's last clear_session call in the history, 0
\* when it was never cleared.
LastClear(session_id) ==
    LET clears == {i \in CallsOf(session_id) : mlog[i].op = "clear_session"}
    IN  IF clears = {} THEN 0
        ELSE CHOOSE i \in clears : \A j \in clears : i >= j

\* The messages added to the session after its last clear, in call order,
\* read off the history from call n on.
RECURSIVE AddedFrom(_, _)
AddedFrom(session_id, n) ==
    IF n > Len(mlog) THEN <<>>
    ELSE IF mlog[n].op = "add_message" /\ mlog[n].session_id = session_id
    THEN <<mlog[n].message>> \o AddedFrom(session_id, n + 1)
    ELSE AddedFrom(session_id, n + 1)

AddedSinceLastClear(session_id) ==
    AddedFrom(session_id, LastClear(session_id) + 1)

\* C20: after any interleaving of add_message and clear_session calls over
\* several sessions, get_messages(s) is exactly the messages added to s
\* since its last clear, in insertion order (so none of another session),
\* and get_context(s) is their contents joined by a newline.
C20_MessagesSinceLastClear ==
    \A session_id \in SessionIds :
        LET added == AddedSinceLastClear(session_id)
        IN  /\ get_messages(messages, session_id) = added
            /\ get_context(messages, session_id) =
                   Join([i \in 1..Len(added) |-> added[i].content])

\* A session that was filled, cleared and filled again with two messages
\* while another session holds a message of its own.
C20_Witness ==
    \E session_id, other \in SessionIds :
        /\ other # session_id
        /\ LastClear(session_id) > 1
        /\ Len(get_messages(messages, session_id)) = 2
        /\ get_context(messages, session_id) = "hello\nhi"
        /\ Len(get_messages(messages, other)) > 0

\* ------------------------------------------------------------------ C19

\* C19: oracle availability is evaluated per reduce call and not cached: a
\* call made while the oracle is unavailable returns the fallback result
\* (it does not fail), and a call made while the oracle is available uses
\* the oracle, whatever earlier calls met.
C19_AvailabilityPerCall ==
    \A i \in 1..Len(calls) :
        /\ ~calls[i].available => calls[i].outcome = "fallback"
        /\ calls[i].available => calls[i].outcome = "oracle"

\* ------------------------------------------------- the requests' histories

\* The places of an event in the history of request r.
Places(r, ev) == {k \in 1..Len(trace[r]) : trace[r][k] = ev}
Did(r, ev) == Places(r, ev) # {}

\* Every event a of request r comes before every event b of it.
Before(r, a, b) == \A i \in Places(r, a), j \in Places(r, b) : i < j

\* The rows of the memory that hold a user's message.
UserRows == {row \in messages : row.role = "user"}

\* ------------------------------------------------------------------ C14

Records(r) == pc[r] = "check_append" /\ pc'[r] = "await_llm"

\* C15: quota is charged against the pre-compression size.  The step in
\* which an admitted request's usage is recorded appends to the identity's
\* token_events the time of the check with the tokens_before the reducer
\* returned for that request, whatever tokens_after is.
C15_ChargesTokensBefore ==
    [][\A r \in Requests :
          Records(r) =>
              store'[req[r].identity].tokens =
                  Append(store[req[r].identity].tokens,
                         <<req[r].now, req[r].tokens_before>>)]_vars

\* An admitted request whose context was shortened: seven tokens before,
\* two after, and seven charged.
C15_Witness ==
    \E r \in Requests :
        /\ pc[r] = "await_llm"
        /\ req[r].tokens_before = 7
        /\ req[r].tokens_after = 2
        /\ Last(store[req[r].identity].tokens) = <<req[r].now, 7>>

\* ------------------------------------------------------------------ C16

CanGoOn(q) == ENABLED (\E payload \in Payloads : BeginBody(q, payload))

\* C18: a long-running reducer call of one request does not delay the
\* rate-limit check of a request of another identity: while a request is
\* inside compress, a request of another identity whose body has arrived
\* can go on towards its check.
C18_CheckNotBehindReducer ==
    \A r, q \in Requests :
        (/\ pc[r] = "compress"
         /\ pc[q] = "await_json"
         /\ req[q].identity # req[r].identity) => CanGoOn(q)

\* ------------------------------------------------------------------ C21

\* The rows of the table that belong to other sessions than session_id.
RowsOfOthers(tbl, session_id) == {row \in tbl : row.session_id # session_id}

\* The step is a clear_session call.
IsClear == Len(mlog') = Len(mlog) + 1 /\ Last(mlog').op = "clear_session"

\* C21: clear_session(s) removes every message of session s, so that
\* get_messages(s) is empty right after it, and leaves the rows and the
\* messages of every other session as they were.
C21_ClearRemovesOnlyTheSession ==
    [][IsClear =>
          LET s == Last(mlog').session_id
          IN  /\ get_messages(messages', s) = <<>>
              /\ RowsOfOthers(messages', s) = RowsOfOthers(messages, s)
              /\ \A other \in SessionIds \ {s} :
                     get_messages(messages', other) = get_messages(messages, other)]_vars

\* A session holding two messages has just been cleared while the other
\* session holds one.
C21_Witness ==
    /\ Len(mlog) = 4
    /\ mlog[4].op = "clear_session"
    /\ \E i, j, k \in 1..3 :
         /\ i # j
         /\ mlog[i].op = "add_message" /\ mlog[i].session_id = mlog[4].session_id
         /\ mlog[j].op = "add_message" /\ mlog[j].session_id = mlog[4].session_id
         /\ mlog[k].op = "add_message" /\ mlog[k].session_id # mlog[4].session_id
    /\ Cardinality(messages) = 1
    /\ get_messages(messages, mlog[4].session_id) = <<>>

\* ------------------------------------------------------------------ C23

\* A sequence of timestamps is in ascending order.
Ascending(ts) == \A i, j \in 1..Len(ts) : i < j => ts[i] <= ts[j]

\* The timestamps of a sequence of token events.
Stamps(tokens) == [i \in 1..Len(tokens) |-> tokens[i][1]]

\* Sequence new is old with some entries taken off its front and some put at
\* its back.
FrontOffBackOn(old, new) ==
    \E k \in 0..Len(old), n \in 0..Len(new) :
        /\ Len(old) - k <= Len(new)
        /\ n = Len(new) - (Len(old) - k)
        /\ \A i \in 1..(Len(old) - k) : new[i] = old[k + i]

\* The quota an identity has in a store, empty when it has none.
QuotaIn(st, identity) ==
    IF identity \in DOMAIN st THEN st[identity] ELSE EmptyQuota

IsCheck == Len(log') = Len(log) + 1

\* The entries of the identity's sequences that are younger than 60 seconds
\* at time now.
YoungReqs(identity, now) ==
    LET Young(ts) == ts > now - Window
    IN  SelectSeq(QuotaIn(store, identity).reqs, Young)
YoungTokens(identity, now) ==
    LET Young(e) == e[1] > now - Window
    IN  SelectSeq(QuotaIn(store, identity).tokens, Young)

\* C24: the window is half-open at its old end.  A check made at time now
\* leaves of the identity's entries exactly those with timestamp > now - 60
\* (plus its own when admitted), and its ceilings are evaluated on those
\* alone: an entry of timestamp now - 60 counts no more, a younger one is
\* never purged.
C24_WindowHalfOpen ==
    [][IsCheck =>
          LET c == Last(log')
              reqs == YoungReqs(c.identity, c.now)
              tokens == YoungTokens(c.identity, c.now)
          IN  /\ store'[c.identity].reqs =
                     IF c.outcome.raised THEN reqs ELSE Append(reqs, c.now)
              /\ store'[c.identity].tokens =
                     IF c.outcome.raised THEN tokens
                     ELSE Append(tokens, <<c.now, c.tokens>>)
              /\ (c.outcome = RequestRateExceeded) <=>
                     (requests_per_minute > 0 /\ Len(reqs) >= requests_per_minute)
              /\ (c.outcome = TokenRateExceeded) <=>
                     /\ ~(requests_per_minute > 0 /\ Len(reqs) >= requests_per_minute)
                     /\ tokens_per_minute > 0
                     /\ SumTokens(tokens) + c.tokens > tokens_per_minute]_vars

\* With a request ceiling of one: a request admitted at t, the next admitted
\* at exactly t + 60 after the first was purged, and one rejected 59 seconds
\* later, the second entry being kept.
C24_Witness ==
    /\ requests_per_minute = 1
    /\ Len(log) = 3
    /\ \A i \in 1..3 : log[i].identity = log[1].identity
    /\ IsAdmitted(1)
    /\ log[2].now = log[1].now + 60 /\ IsAdmitted(2)
    /\ log[3].now = log[2].now + 59 /\ log[3].outcome = RequestRateExceeded
    /\ store[log[1].identity].reqs = <<log[2].now>>

\* ------------------------------------------------------------------ C26

\* C26: in every reachable state each identity's requests and token_events
\* have the same length and the i-th token event carries the timestamp of
\* the i-th request.
C26_SequencesInStep ==
    \A identity \in DOMAIN store :
        /\ Len(store[identity].reqs) = Len(store[identity].tokens)
        /\ Stamps(store[identity].tokens) = store[identity].reqs

\* A quota of two entries in each sequence, left of three admitted
\* requests after one entry was purged from each.
C26_Witness ==
    \E identity \in DOMAIN store :
        /\ Len(store[identity].reqs) = 2
        /\ Len(store[identity].tokens) = 2
        /\ Cardinality({i \in 1..Len(log) : IsAdmitted(i) /\ log[i].identity = identity}) = 3

\* ------------------------------------------------------------------ C22

\* Text t is text f without its leading and trailing blanks.
IsTrimOf(t, f) ==
    /\ t = <<>> \/ (t[1] # " " /\ t[Len(t)] # " ")
    /\ \E i \in 1..(Len(f) + 1), j \in 0..Len(f) :
         /\ t = SubSeq(f, i, j)
         /\ \A k \in 1..Len(f) : (k < i \/ k > j) => f[k] = " "

\* The places i..j of API_KEYS hold a key: they hold neither a comma nor a
\* blank at either end, and only blanks lie between them and the nearest
\* comma or end of the text on either side.
HoldsKey(i, j) ==
    /\ i <= j
    /\ \A k \in i..j : api_keys[k] # ","
    /\ api_keys[i] # " " /\ api_keys[j] # " "
    /\ \E lo \in 1..i, hi \in j..Len(api_keys) :
         /\ lo = 1 \/ api_keys[lo - 1] = ","
         /\ hi = Len(api_keys) \/ api_keys[hi + 1] = ","
         /\ \A k \in (lo..(i - 1)) \cup ((j + 1)..hi) : api_keys[k] = " "

\* The keys configured by API_KEYS: the non-empty trimmed fields.
ConfiguredKeys ==
    {SubSeq(api_keys, p[1], p[2]) :
        p \in {q \in (1..Len(api_keys)) \X (1..Len(api_keys)) : HoldsKey(q[1], q[2])}}

\* C22: get_current_identity returns the empty identity when no keys are
\* configured; with keys configured it returns the trimmed header value
\* when that is a configured key, and otherwise (header missing or key
\* unknown) raises 401 and returns no identity; it never ends with 429.
C22_IdentityOr401 ==
    auth # NotCalled =>
        LET configured == ConfiguredKeys
        IN  /\ auth.status_code # 429
            /\ IF configured = {}
               THEN auth = Identified(<<>>)
               ELSE IF x_api_key.sent /\ \E t \in configured : IsTrimOf(t, x_api_key.value)
               THEN /\ ~auth.raised
                    /\ auth.identity \in configured
                    /\ IsTrimOf(auth.identity, x_api_key.value)
               ELSE /\ auth.raised
                    /\ auth.status_code = 401
                    /\ auth.identity = <<>>

\* API_KEYS ", b" configures the one key "b", and the header "b " is
\* accepted as identity "b".
C22_Witness ==
    /\ api_keys = <<",", " ", "b">>
    /\ x_api_key = [sent |-> TRUE, value |-> <<"b", " ">>]
    /\ auth = Identified(<<"b">>)

\* ------------------------------------------------------------------ C25

\* call_llm has returned to request r in this step: the request was
\* forwarded upstream with success.
Forwarded(r) ==
    /\ pc[r] = "await_llm"
    /\ pc'[r] = "done"
    /\ req'[r].status = 200

\* C25: after every request that is forwarded upstream with success,
\* streaming or not, the stored history of its session has grown by the
\* user's message followed by the assistant's reply.
C25_HistoryGrowsByBoth ==
    [][\A r \in Requests :
          Forwarded(r) =>
              LET old == get_messages(messages, req[r].session_id)
                  new == get_messages(messages', req[r].session_id)
              IN  /\ Len(new) = Len(old) + 2
                  /\ SubSeq(new, 1, Len(old)) = old
                  /\ new[Len(old) + 1].role = "user"
                  /\ new[Len(old) + 1].content = req[r].query
                  /\ new[Len(old) + 2].role = "assistant"]_vars

\* ------------------------------------------------------------------ C27

\* The upstream call of request r has failed in this step.
UpstreamFailed(r) ==
    /\ pc[r] = "await_llm"
    /\ pc'[r] = "done"
    /\ req'[r].status = 500

\* The last check of the history made for the identity of check i.
LastCheckOf(i) ==
    CHOOSE j \in 1..Len(log) :
        /\ log[j].identity = log[i].identity
        /\ \A k \in 1..Len(log) : log[k].identity = log[i].identity => k <= j

\* The usage of every admitted check that was younger than 60 seconds at the
\* identity's last check is in the identity's quota, whatever became of the
\* request afterwards.
UsageStays ==
    \A i \in 1..Len(log) :
        (IsAdmitted(i) /\ log[i].now > log[LastCheckOf(i)].now - Window) =>
            /\ log[i].identity \in DOMAIN store
            /\ \E k \in 1..Len(store[log[i].identity].reqs) :
                 /\ store[log[i].identity].reqs[k] = log[i].now
                 /\ store[log[i].identity].tokens[k] = <<log[i].now, log[i].tokens>>

\* C27: usage recorded by an admitted check is never rolled back.  The step
\* in which the upstream call of an admitted request fails changes neither
\* the quota store nor the memory, and the usage stays in the identity's
\* quota, where later checks count it, for as long as it is in the window.
C27_UsageNotRolledBack ==
    /\ [][\A r \in Requests :
             UpstreamFailed(r) => (store' = store /\ messages' = messages)]_vars
    /\ []((\A r \in Requests : pc[r] \notin {"check_evaluate", "check_append"})
             => UsageStays)

\* With a request ceiling of one: a request was admitted and its upstream
\* call failed, nothing was persisted, and a later request of the identity
\* was rejected at the same time of the clock for the usage left behind.
C27_Witness ==
    /\ requests_per_minute = 1
    /\ messages = {}
    /\ \E r, q \in Requests :
         /\ trace[r] = <<"arrive", "reduce", "check", "admitted", "upstream">>
         /\ pc[r] = "done"
         /\ req[r].status = 500
         /\ trace[q] = <<"arrive", "reduce", "check", "rejected">>
         /\ req[q].identity = req[r].identity
         /\ Len(log) = 2
         /\ IsAdmitted(1)
         /\ log[2].outcome = RequestRateExceeded

\* ------------------------------------------------------------------ C28

\* The requests that wrote the row to the memory.
WritersOf(row) == {q \in Requests : row.id \in req[q].rows}

\* C28: conversation memory is isolated between authenticated identities.
\* The context a request has fetched holds only messages persisted by
\* requests of its own identity, whatever X-Session-ID headers were sent.
C28_ContextOfOwnIdentity ==
    \A r \in Requests :
        pc[r] = "compress" =>
            \A row \in messages :
                row.session_id = req[r].session_id =>
                    \A q \in WritersOf(row) : req[q].identity = req[r].identity

====
